---- MODULE Spec2Model ----
(***************************************************************************)
(* Model of the iCloud CalDAV bridge (src/src/server.py): one calendar     *)
(* resource on the remote store and the tool handlers that create, patch   *)
(* and re-write it (create_my_event, update_my_event, add_event_alarm,     *)
(* replace_event_alarm, remove_event_alarm, list_event_alarms).            *)
(*                                                                         *)
(* Optional values (Python None) are sequences of length at most one.      *)
(* uuid4() is a counter: every call returns a value never returned before. *)
(***************************************************************************)
EXTENDS Integers, Sequences, FiniteSets, TLC

VARIABLES stored, nextUid, ops, faults, last, scen, calls

vars == <<stored, nextUid, ops, faults, last, scen, calls>>

\* ------------------------------------------------------------------ bounds
\* calls of the patch, alarm and listing handlers in one behaviour
MaxOps == 2
\* transport faults (failed save, failed or unloaded lookup) in one behaviour
MaxFaults == 1
\* handler calls started in one behaviour of overlapping callers
MaxRaceOps == 3

\* ------------------------------------------------------------ basic values
None == <<>>
Some(x) == <<x>>
IsSome(o) == o # <<>>

Abs(n) == IF n < 0 THEN -n ELSE n

\* str(None): what str(a.get('uid')) yields for an alarm without a UID
NoneStr == 0

StrOf(o) == IF o = None THEN NoneStr ELSE o[1]

\* text values: s is the text, esc the number of escaping layers applied to it
Text(s) == [s |-> s, esc |-> 0]

\* texts holding a character the calendar format escapes (, ; \ newline)
SpecialTexts == {"a,b"}

\* Python truthiness of an optional text property (absent or empty is false)
Truthy(o) == o # None /\ o[1].s # ""

\* vText.to_ical().decode('utf-8'): the escaped form of the text
EscapeText(t) == IF t.s \in SpecialTexts THEN [t EXCEPT !.esc = @ + 1] ELSE t

\* description / location copy: the escaped text is added as a new value
CopyEscaped(o) == IF Truthy(o) THEN Some(EscapeText(o[1])) ELSE None

\* summary / rrule copy: str(value) is added
CopyStr(o) == IF Truthy(o) THEN o ELSE None

\* ------------------------------------------------------------- date values
Instant(day, time) == [kind |-> "instant", day |-> day, time |-> time]
CalDate(day) == [kind |-> "date", day |-> day, time |-> ""]

\* strings the callers pass as start / end
DateOnlyStrings == {"2024-03-01", "2024-03-02"}
DateTimeStrings == {"2024-03-01T00:00:00Z", "2024-01-10T09:00:00Z",
                    "2024-01-10T09:15:00Z"}

DayOf(v) == CASE v = "2024-03-01" -> "2024-03-01"
              [] v = "2024-03-02" -> "2024-03-02"
              [] v = "2024-03-01T00:00:00Z" -> "2024-03-01"
              [] OTHER -> "2024-01-10"

TimeOf(v) == CASE v = "2024-01-10T09:00:00Z" -> "09:00"
               [] v = "2024-01-10T09:15:00Z" -> "09:15"
               [] OTHER -> "00:00"

\* _parse_iso_datetime(value, None): [ok, val]; ok = FALSE is the ValueError
parse_iso_datetime(value) ==
    IF value = None \/ value = Some("")
    THEN [ok |-> TRUE, val |-> None]
    ELSE IF value[1] \in DateOnlyStrings
         THEN [ok |-> TRUE, val |-> Some(Instant(DayOf(value[1]), "00:00"))]
         ELSE IF value[1] \in DateTimeStrings
              THEN [ok |-> TRUE,
                    val |-> Some(Instant(DayOf(value[1]), TimeOf(value[1])))]
              ELSE [ok |-> FALSE, val |-> None]

\* ------------------------------------------------------------------ alarms
Trigger(secs, related) == [kind |-> "rel", secs |-> secs, related |-> related]
AbsTrigger == [kind |-> "abs", secs |-> 0, related |-> None]

\* variant of the new alarm: its uid derived from the trigger minutes instead
\* of drawn fresh
create_alarm_uid_by_trigger(minutes_before, description, action, related, uid) ==
    [uid |-> Some(minutes_before),
     xuid |-> Some(minutes_before),
     action |-> IF action = "" THEN "DISPLAY" ELSE action,
     description |-> IF description = None \/ description = Some("")
                     THEN None ELSE description,
     trigger |-> Some(Trigger(-(minutes_before * 60),
                              Some(IF related = "" THEN "START" ELSE related)))]

\* the VALARM built by create_alarm and by the handlers' inline copies of it
create_alarm(minutes_before, description, action, related, uid) ==
    [uid |-> Some(uid),
     xuid |-> Some(uid),
     action |-> IF action = "" THEN "DISPLAY" ELSE action,
     description |-> IF description = None \/ description = Some("")
                     THEN None ELSE description,
     trigger |-> Some(Trigger(-(minutes_before * 60),
                              Some(IF related = "" THEN "START" ELSE related)))]

\* (variant: a started minute counts as a whole one)
TriggerMinutesRoundedUp(a) ==
    IF a.trigger = None THEN None
    ELSE IF a.trigger[1].kind = "rel"
         THEN Some((Abs(a.trigger[1].secs) + 59) \div 60)
         ELSE None

\* minutes of an existing alarm as the handlers compute it:
\* int(abs(value.total_seconds()) // 60) for a timedelta trigger, else nothing
TriggerMinutes(a) ==
    IF a.trigger = None THEN None
    ELSE IF a.trigger[1].kind = "rel"
         THEN Some(Abs(a.trigger[1].secs) \div 60)
         ELSE None

\* variant of the clone: the non-standard X-WR-ALARMUID property is lost
CloneAlarmStandardOnly(a) ==
    [uid |-> a.uid, xuid |-> None, action |-> a.action,
     description |-> a.description, trigger |-> a.trigger]

\* IcsAlarm.from_ical(a.to_ical()): serialising and re-parsing a VALARM gives
\* back every property of it
CloneAlarm(a) ==
    [uid |-> a.uid, xuid |-> a.xuid, action |-> a.action,
     description |-> a.description, trigger |-> a.trigger]

RECURSIVE CloneAll(_)
CloneAll(as) == IF as = <<>> THEN <<>>
                ELSE <<CloneAlarm(Head(as))>> \o CloneAll(Tail(as))

\* ------------------------------------------------------------------ events
NoEvent == [uid |-> None, dtstamp |-> None, dtstart |-> None, dtend |-> None,
            rrule |-> None, summary |-> None, description |-> None,
            location |-> None, seq |-> None, alarms |-> <<>>]

\* original_event.get('sequence', 0)
CurrentSequence(e) == IF e.seq = None THEN 0 ELSE e.seq[1]

\* the resource on the remote store
Absent == [kind |-> "absent", events |-> <<>>]
Garbage == [kind |-> "garbage", events |-> <<>>]
Calendar(events) == [kind |-> "cal", events |-> events]

\* ------------------------------------------------------------- the locator
\* references a caller passes: "this" is the uid of the stored resource,
\* "ghost" a uid no resource has; the urls end in this.ics, th%69s, ghost.ics
EventUids == {None, Some("this"), Some("ghost")}
EventUrls == {None, Some("/cal/this.ics"), Some("/cal/th%69s"),
              Some("/cal/ghost.ics")}

\* _uid_from_event_url: last path segment, .ics stripped, percent-decoded
uid_from_event_url(event_url) ==
    IF event_url = None \/ event_url = Some("") THEN None
    ELSE CASE event_url[1] = "/cal/this.ics" -> Some("this")
           [] event_url[1] = "/cal/th%69s" -> Some("this")
           [] OTHER -> Some("ghost")

\* cal.event_by_uid(uid) returns the resource (TRUE) or raises (FALSE)
event_by_uid(st, uid) == st.kind # "absent" /\ uid = "this"

\* What _get_event_by_url_or_uid hands back:
\*   "loaded"   cal.event_by_uid found the resource, its data is the record
\*   "unloaded" the fallback caldav.Event(client, url=event_url): data is None
\*   "none"     neither reference given, or nothing found: ValueError
get_event_by_url_or_uid(st, event_url, uid) ==
    IF uid # None /\ uid # Some("") /\ event_by_uid(st, uid[1])
    THEN "loaded"
    ELSE IF event_url # None /\ event_url # Some("")
         THEN IF /\ uid_from_event_url(event_url) # None
                 /\ event_by_uid(st, uid_from_event_url(event_url)[1])
              THEN "loaded"
              ELSE "unloaded"
         ELSE "none"

\* the outcomes over every pair of references
Lookups(st) ==
    {get_event_by_url_or_uid(st, event_url, uid) :
       event_url \in EventUrls, uid \in EventUids}

\* IcsCalendar.from_ical(data) and the first component of walk('vevent');
\* None when the parse raises or the calendar holds no VEVENT
OriginalEvent(st, lk) ==
    IF lk = "loaded" /\ st.kind = "cal" /\ st.events # <<>>
    THEN Some(Head(st.events))
    ELSE None

\* ------------------------------------------------- copying the core fields
\* number of uuid4() values the copy takes for the event itself
UidNeed(e) == IF e.uid = None THEN 1 ELSE 0

\* uid, dtstamp, dates, rrule, summary, description, location of the original
\* copied into the new VEVENT, and SEQUENCE set to the original's + 1
CopyCore(e, n) ==
    [uid |-> IF e.uid # None THEN e.uid ELSE Some(n),
     dtstamp |-> IF e.dtstamp # None THEN e.dtstamp ELSE Some("now"),
     dtstart |-> e.dtstart,
     dtend |-> e.dtend,
     rrule |-> CopyStr(e.rrule),
     summary |-> CopyStr(e.summary),
     description |-> CopyEscaped(e.description),
     location |-> CopyEscaped(e.location),
     seq |-> Some(CurrentSequence(e) + 1),
     alarms |-> <<>>]

\* ------------------------------------------------------- alarm predicates
\* an existing alarm whose trigger minutes equal minutes_before
SameMinutes(a, minutes_before) ==
    /\ TriggerMinutes(a) # None
    /\ TriggerMinutes(a)[1] = minutes_before

SameMinutesCount(e, minutes_before) ==
    Cardinality({i \in 1..Len(e.alarms) :
                   SameMinutes(e.alarms[i], minutes_before)})

\* variants of the duplicate check: the trigger compared with its sign, and
\* only alarms with the action of the new alarm looked at
IsDuplicateSigned(e, req) ==
    /\ req.dedupe
    /\ \E i \in 1..Len(e.alarms) :
         /\ e.alarms[i].trigger # None
         /\ e.alarms[i].trigger[1].kind = "rel"
         /\ e.alarms[i].trigger[1].secs \div 60 = req.minutes_before

IsDuplicateSameAction(e, req) ==
    /\ req.dedupe
    /\ \E i \in 1..Len(e.alarms) :
         /\ SameMinutes(e.alarms[i], req.minutes_before)
         /\ e.alarms[i].action = req.action

\* the duplicate check of add_event_alarm
IsDuplicate(e, req) ==
    /\ req.dedupe
    /\ \E i \in 1..Len(e.alarms) : SameMinutes(e.alarms[i], req.minutes_before)

\* variant of the selection test: a criterion given without its value
\* selects every alarm
MatchesMissingValue(a, req, allowAll) ==
    IF allowAll /\ req.match_by = "all" THEN TRUE
    ELSE IF req.match_by = "uid"
         THEN \/ req.alarm_uid = None
              \/ StrOf(a.uid) = req.alarm_uid[1]
              \/ StrOf(a.xuid) = req.alarm_uid[1]
         ELSE IF req.match_by = "minutes"
              THEN \/ req.minutes_before = None
                   \/ SameMinutes(a, req.minutes_before[1])
              ELSE FALSE

\* the selection test shared by replace_event_alarm and remove_event_alarm
\* (replace knows no match_by = 'all')
Matches(a, req, allowAll) ==
    IF allowAll /\ req.match_by = "all" THEN TRUE
    ELSE IF req.match_by = "uid" /\ req.alarm_uid # None
         THEN StrOf(a.uid) = req.alarm_uid[1] \/ StrOf(a.xuid) = req.alarm_uid[1]
         ELSE IF req.match_by = "minutes" /\ req.minutes_before # None
              THEN SameMinutes(a, req.minutes_before[1])
              ELSE FALSE

\* variant of the filter: only the first selected alarm is dropped
KeepAllButFirstMatch(as, req, allowAll) ==
    LET hit == {i \in 1..Len(as) : Matches(as[i], req, allowAll)}
    IN  IF hit = {} THEN CloneAll(as)
        ELSE LET f == CHOOSE i \in hit : \A j \in hit : i <= j
             IN  CloneAll(SubSeq(as, 1, f - 1) \o SubSeq(as, f + 1, Len(as)))

RECURSIVE KeepUnmatched(_, _, _)
KeepUnmatched(as, req, allowAll) ==
    IF as = <<>> THEN <<>>
    ELSE IF Matches(Head(as), req, allowAll)
         THEN KeepUnmatched(Tail(as), req, allowAll)
         ELSE <<CloneAlarm(Head(as))>> \o KeepUnmatched(Tail(as), req, allowAll)

\* ------------------------------------------------------ the new event built
\* variant of the add: the new alarm placed before the existing ones
AddBuildPrepend(e, req, n) ==
    [CopyCore(e, n) EXCEPT
       !.alarms = <<create_alarm(req.minutes_before, req.description, req.action,
                                 req.related, n + UidNeed(e))>> \o
                  CloneAll(e.alarms)]

\* add_event_alarm: every existing alarm, then the new one
AddBuild(e, req, n) ==
    [CopyCore(e, n) EXCEPT
       !.alarms = CloneAll(e.alarms) \o
                  <<create_alarm(req.minutes_before, req.description, req.action,
                                 req.related, n + UidNeed(e))>>]

\* replace_event_alarm: the alarms that do not match, then the new one
ReplaceBuild(e, req, n) ==
    [CopyCore(e, n) EXCEPT
       !.alarms = KeepUnmatched(e.alarms, req, FALSE) \o
                  <<create_alarm(req.new_minutes_before, req.description,
                                 req.action, req.related, n + UidNeed(e))>>]

\* remove_event_alarm: the alarms that do not match
RemoveBuild(e, req, n) ==
    [CopyCore(e, n) EXCEPT !.alarms = KeepUnmatched(e.alarms, req, TRUE)]

RemovedCount(e, req) ==
    Cardinality({i \in 1..Len(e.alarms) : Matches(e.alarms[i], req, TRUE)})

\* ---------------------------------------------------------- update_my_event
\* the alarm create_my_event and update_my_event build inline
InlineAlarm(minutes, uid) ==
    create_alarm(minutes, Some("Reminder"), "DISPLAY", "START", uid)

AlarmRequested(req) == req.alarm # None /\ req.alarm[1] >= 0

\* a start / end string that _parse_iso_datetime rejects aborts the handler
PatchRaises(req) ==
    \/ ~parse_iso_datetime(req.start).ok
    \/ ~parse_iso_datetime(req.end_).ok

\* the date written for a supplied start / end: nothing when the parse is None
PatchedDate(given, original) ==
    IF given # None THEN parse_iso_datetime(given).val ELSE original

\* the branch for a decoded original event
PatchExisting(e, req, n) ==
    [uid |-> IF e.uid # None THEN e.uid ELSE Some(n),
     dtstamp |-> IF e.dtstamp # None THEN e.dtstamp ELSE Some("now"),
     dtstart |-> PatchedDate(req.start, e.dtstart),
     dtend |-> PatchedDate(req.end_, e.dtend),
     rrule |-> IF req.rrule # None THEN req.rrule ELSE CopyStr(e.rrule),
     seq |-> Some(CurrentSequence(e) + 1),
     summary |-> IF req.summary # None THEN req.summary
                 ELSE CopyStr(e.summary),
     description |-> IF req.description # None THEN req.description
                     ELSE CopyEscaped(e.description),
     location |-> IF req.location # None THEN req.location
                  ELSE CopyEscaped(e.location),
     alarms |-> IF AlarmRequested(req)
                THEN <<InlineAlarm(req.alarm[1], n + UidNeed(e))>> \o
                     CloneAll(e.alarms)
                ELSE CloneAll(e.alarms)]

\* the branch taken when no original event was decoded
PatchFresh(req, n) ==
    [uid |-> Some(n),
     dtstamp |-> Some("now"),
     dtstart |-> parse_iso_datetime(req.start).val,
     dtend |-> parse_iso_datetime(req.end_).val,
     rrule |-> req.rrule,
     seq |-> Some(1),
     summary |-> req.summary,
     description |-> req.description,
     location |-> req.location,
     alarms |-> IF AlarmRequested(req)
                THEN <<InlineAlarm(req.alarm[1], n + 1)>>
                ELSE <<>>]

PatchBuild(orig, req, n) ==
    IF orig # None THEN PatchExisting(orig[1], req, n) ELSE PatchFresh(req, n)

\* uuid4() calls of one update_my_event
PatchUids(orig, req) ==
    (IF orig # None THEN UidNeed(orig[1]) ELSE 1) +
    (IF AlarmRequested(req) THEN 1 ELSE 0)

\* ---------------------------------------------------------- create_my_event
CreateRaises(req) ==
    \/ ~parse_iso_datetime(Some(req.start)).ok
    \/ ~parse_iso_datetime(Some(req.end_)).ok
    \/ IF req.all_day
       THEN req.start \notin DateOnlyStrings \/ req.end_ \notin DateOnlyStrings
       ELSE \/ parse_iso_datetime(Some(req.start)).val = None
            \/ parse_iso_datetime(Some(req.end_)).val = None

CreateBuild(req, n) ==
    [uid |-> Some(n),
     summary |-> Some(req.summary),
     dtstamp |-> Some("now"),
     description |-> IF Truthy(req.description) THEN req.description ELSE None,
     location |-> IF Truthy(req.location) THEN req.location ELSE None,
     dtstart |-> IF req.all_day THEN Some(CalDate(DayOf(req.start)))
                 ELSE parse_iso_datetime(Some(req.start)).val,
     dtend |-> IF req.all_day THEN Some(CalDate(DayOf(req.end_)))
               ELSE parse_iso_datetime(Some(req.end_)).val,
     rrule |-> IF Truthy(req.rrule) THEN req.rrule ELSE None,
     seq |-> None,
     alarms |-> IF AlarmRequested(req)
                THEN <<InlineAlarm(req.alarm[1], n + 1)>>
                ELSE <<>>]

\* ------------------------------------------------------- list_event_alarms
\* one entry per VALARM of the whole calendar, in walk order
AlarmView(a) ==
    [uid |-> a.uid,
     x_wr_alarmuid |-> a.xuid,
     minutes_before |-> TriggerMinutes(a),
     related |-> IF a.trigger = None THEN None
                 ELSE IF a.trigger[1].related = None THEN Some("START")
                      ELSE a.trigger[1].related,
     action |-> a.action,
     description |-> a.description]

RECURSIVE AllAlarms(_)
AllAlarms(events) ==
    IF events = <<>> THEN <<>>
    ELSE Head(events).alarms \o AllAlarms(Tail(events))

ListAlarms(st) ==
    LET as == AllAlarms(st.events)
    IN  [i \in 1..Len(as) |-> AlarmView(as[i])]

\* ------------------------------------------------------- decoding a record
\* dt_to_iso: a date prints as its day, a datetime with its time and offset
dt_to_iso(o) ==
    IF o = None THEN None
    ELSE IF o[1].kind = "date"
         THEN Some([day |-> o[1].day, time |-> "", offset |-> ""])
         ELSE Some([day |-> o[1].day, time |-> o[1].time, offset |-> "+00:00"])

\* the loop over walk('vevent'): a field is set by the first component that
\* has it and is never set again
RECURSIVE FirstPresent(_, _)
FirstPresent(events, field) ==
    IF events = <<>> THEN None
    ELSE IF Head(events)[field] # None THEN Head(events)[field]
         ELSE FirstPresent(Tail(events), field)

\* ICalUtils.parse_event_from_ics: the decoded fields, all absent when the
\* record does not decode
parse_event_from_ics(st) ==
    IF st.kind # "cal"
    THEN [uid |-> None, summary |-> None, description |-> None,
          location |-> None, start |-> None, end_ |-> None]
    ELSE [uid |-> FirstPresent(st.events, "uid"),
          summary |-> FirstPresent(st.events, "summary"),
          description |-> FirstPresent(st.events, "description"),
          location |-> FirstPresent(st.events, "location"),
          start |-> dt_to_iso(FirstPresent(st.events, "dtstart")),
          end_ |-> dt_to_iso(FirstPresent(st.events, "dtend"))]

\* list_my_events: one entry per resource found, decoded by the same loop
EventEntries(st) ==
    IF st.kind = "absent" THEN <<>>
    ELSE IF st.kind # "cal"
         THEN <<[uid |-> None, summary |-> None, start |-> None,
                 end_ |-> None]>>
         ELSE <<[uid |-> FirstPresent(st.events, "uid"),
                 summary |-> FirstPresent(st.events, "summary"),
                 start |-> dt_to_iso(FirstPresent(st.events, "dtstart")),
                 end_ |-> dt_to_iso(FirstPresent(st.events, "dtend"))]>>

\* ---------------------------------------------------------------- requests
DefaultAdd(m) ==
    [minutes_before |-> m, description |-> Some("Reminder"),
     action |-> "DISPLAY", related |-> "START", dedupe |-> TRUE]

AddRequests ==
    {DefaultAdd(10), DefaultAdd(-5),
     [DefaultAdd(10) EXCEPT !.dedupe = FALSE, !.related = "END",
                            !.description = None]}

\* identifiers a caller can name: those listed for the stored alarms, the
\* text "None", and one that names no alarm
KnownAlarmUids(st) ==
    LET as == AllAlarms(st.events)
    IN  {StrOf(as[i].uid) : i \in 1..Len(as)} \cup
        {StrOf(as[i].xuid) : i \in 1..Len(as)}

UidChoices(st) ==
    LET known == KnownAlarmUids(st)
    IN  IF known = {} THEN {999}
        ELSE {CHOOSE u \in known : \A v \in known : u <= v,
              CHOOSE u \in known : \A v \in known : u >= v}

DefaultReplace(by, minutes, auid, new) ==
    [match_by |-> by, minutes_before |-> minutes, alarm_uid |-> auid,
     new_minutes_before |-> new, description |-> Some("Reminder"),
     action |-> "DISPLAY", related |-> "START"]

ReplaceRequests(st) ==
    {DefaultReplace("minutes", Some(10), None, 5),
     DefaultReplace("minutes", None, None, 5),
     DefaultReplace("uid", None, None, 10)} \cup
    {DefaultReplace("uid", None, Some(u), 10) : u \in UidChoices(st)}

RemoveRequest(by, minutes, auid) ==
    [match_by |-> by, minutes_before |-> minutes, alarm_uid |-> auid]

RemoveRequests(st) ==
    {RemoveRequest("all", None, None),
     RemoveRequest("minutes", Some(10), None)} \cup
    {RemoveRequest("uid", None, Some(u)) : u \in UidChoices(st)}

NoPatch ==
    [summary |-> None, start |-> None, end_ |-> None, description |-> None,
     location |-> None, rrule |-> None, alarm |-> None]

PatchRequests ==
    {NoPatch,
     [NoPatch EXCEPT !.summary = Some(Text("Retro")),
                     !.start = Some("2024-03-02")],
     [NoPatch EXCEPT !.start = Some(""), !.description = Some(Text(""))],
     [NoPatch EXCEPT !.alarm = Some(5), !.location = Some(Text("Room")),
                     !.rrule = Some(Text("FREQ=DAILY"))],
     [NoPatch EXCEPT !.alarm = Some(-1)],
     [NoPatch EXCEPT !.end_ = Some("tomorrow")]}

Standup ==
    [summary |-> Text("Standup"), start |-> "2024-01-10T09:00:00Z",
     end_ |-> "2024-01-10T09:15:00Z", all_day |-> FALSE, description |-> None,
     location |-> None, rrule |-> None, alarm |-> None]

CreateRequests ==
    {Standup,
     [Standup EXCEPT !.start = "2024-03-01", !.end_ = "2024-03-02",
                     !.all_day = TRUE, !.alarm = Some(10),
                     !.description = Some(Text("a,b"))],
     [Standup EXCEPT !.start = ""]}

\* ------------------------------------------- records other clients stored
ExternalAlarm(uid, xuid, trigger) ==
    [uid |-> uid, xuid |-> xuid, action |-> "AUDIO", description |-> None,
     trigger |-> trigger]

Lunch ==
    [uid |-> Some(100), dtstamp |-> Some("t0"),
     dtstart |-> Some(Instant("2024-03-01", "00:00")),
     dtend |-> Some(Instant("2024-03-02", "00:00")),
     rrule |-> None, summary |-> Some(Text("Lunch")),
     description |-> Some(Text("a,b")), location |-> None, seq |-> Some(2),
     alarms |-> <<ExternalAlarm(Some(101), Some(101),
                                Some(Trigger(-600, Some("START")))),
                  ExternalAlarm(None, None, Some(AbsTrigger))>>]

\* no UID, no DTSTAMP, no SEQUENCE; a trigger of 10.5 minutes without RELATED
Bare ==
    [NoEvent EXCEPT
       !.dtstart = Some(CalDate("2024-03-01")),
       !.dtend = Some(CalDate("2024-03-02")),
       !.alarms = <<ExternalAlarm(Some(102), Some(103),
                                  Some(Trigger(-630, None))),
                    ExternalAlarm(Some(104), Some(104),
                                  Some(Trigger(-600, Some("END"))))>>]

Override ==
    [NoEvent EXCEPT
       !.uid = Some(100), !.summary = Some(Text("Moved")),
       !.alarms = <<ExternalAlarm(Some(105), Some(105),
                                  Some(Trigger(-300, Some("START")))),
                    ExternalAlarm(Some(106), Some(106), None)>>]

InitialStores ==
    {Absent, Garbage, Calendar(<<Lunch>>), Calendar(<<Bare, Override>>)}

\* ------------------------------------------------------------ the handlers
\* the record of the latest call: what it was given, found, built and reported;
\* first: when the call repeats the add_event_alarm call before it, that
\* call's report and the number of alarms it found with the same minutes
Call(op, req, lk, status, saved, orig, new, removed) ==
    [op |-> op, req |-> req, lookup |-> lk, status |-> status, saved |-> saved,
     orig |-> orig, new |-> new, removed |-> removed, before |-> stored,
     listed |-> IF op = "list" /\ status = "listed" THEN ListAlarms(stored)
                ELSE IF op = "events" THEN EventEntries(stored)
                     ELSE <<>>,
     first |-> IF op = "add" /\ last.op = "add" /\ last.req = req
                  /\ last.status \in {"added", "skipped"}
               THEN Some([status |-> last.status, saved |-> last.saved,
                          had |-> SameMinutesCount(last.orig[1],
                                                   req.minutes_before)])
               ELSE None]

FaultsOf(lk, saveOk) ==
    (IF lk = "loaded" THEN 0 ELSE 1) + (IF saveOk THEN 0 ELSE 1)

\* progress through the scenario create, add 10, replace 10 by 5, remove all
ScenNext(k, hit) == IF hit /\ scen = k THEN k + 1 ELSE -1

\* the callers whose handler calls may overlap, and a caller between calls
Callers == {1, 2}
Idle ==
    [pc |-> "idle", op |-> "", req |-> NoPatch, orig |-> None,
     status |-> "", saved |-> FALSE, new |-> None]

Init ==
    /\ stored \in InitialStores
    /\ calls = [c \in Callers |-> Idle]
    /\ nextUid = 1
    /\ ops = 0
    /\ faults = 0
    /\ scen = 0
    /\ last = [op |-> "init", req |-> NoPatch, lookup |-> "none",
               status |-> "", saved |-> FALSE, orig |-> None, new |-> None,
               removed |-> 0, before |-> stored, listed |-> <<>>,
               first |-> None]

\* cal.add_event(ics_text) stores the new record or raises (RuntimeError)
create_my_event ==
    \E req \in CreateRequests, saveOk \in BOOLEAN :
      /\ stored.kind = "absent"
      /\ faults + FaultsOf("loaded", saveOk) <= MaxFaults
      /\ UNCHANGED <<ops, calls>>
      /\ IF CreateRaises(req)
         THEN /\ saveOk
              /\ last' = Call("create", req, "loaded", "error", FALSE, None,
                              None, 0)
              /\ scen' = -1
              /\ UNCHANGED <<stored, nextUid, faults>>
         ELSE LET new == CreateBuild(req, nextUid)
              IN  /\ stored' = IF saveOk THEN Calendar(<<new>>) ELSE stored
                  /\ nextUid' = nextUid + 1 + (IF AlarmRequested(req) THEN 1 ELSE 0)
                  /\ faults' = faults + FaultsOf("loaded", saveOk)
                  /\ last' = Call("create", req, "loaded",
                                  IF saveOk THEN "created" ELSE "error",
                                  saveOk, None, Some(new), 0)
                  /\ scen' = ScenNext(0, saveOk /\ req = Standup)

\* the lookup raises before any field of the request is read
NotLocated(op, lk) ==
    /\ ops < MaxOps
    /\ faults < MaxFaults
    /\ ops' = ops + 1
    /\ faults' = faults + 1
    /\ scen' = -1
    /\ last' = Call(op, NoPatch, lk, "error", FALSE, None, None, 0)
    /\ UNCHANGED <<stored, nextUid, calls>>

\* a handler that located the resource or built an unloaded object for it
Located(lk, saveOk) ==
    /\ ops < MaxOps
    /\ faults + FaultsOf(lk, saveOk) <= MaxFaults
    /\ ops' = ops + 1
    /\ UNCHANGED calls

\* event_obj.save() failing is caught and ignored: "updated" either way
update_my_event ==
    \/ NotLocated("patch", "none")
    \/ \E req \in PatchRequests, lk \in Lookups(stored) \ {"none"},
          saveOk \in BOOLEAN :
         /\ Located(lk, saveOk)
         /\ scen' = -1
         /\ LET orig == OriginalEvent(stored, lk)
            IN  IF PatchRaises(req)
                THEN /\ saveOk
                     /\ last' = Call("patch", req, lk, "error", FALSE, orig,
                                     None, 0)
                     /\ faults' = faults + FaultsOf(lk, TRUE)
                     /\ UNCHANGED <<stored, nextUid>>
                ELSE LET new == PatchBuild(orig, req, nextUid)
                     IN  /\ stored' = IF saveOk THEN Calendar(<<new>>)
                                      ELSE stored
                         /\ nextUid' = nextUid + PatchUids(orig, req)
                         /\ faults' = faults + FaultsOf(lk, saveOk)
                         /\ last' = Call("patch", req, lk, "updated", saveOk,
                                         orig, Some(new), 0)

\* the alarm handlers raise ValueError when no original event is decoded
NoOriginal(op, lk) ==
    /\ OriginalEvent(stored, lk) = None
    /\ ops < MaxOps
    /\ faults + FaultsOf(lk, TRUE) <= MaxFaults
    /\ ops' = ops + 1
    /\ faults' = faults + FaultsOf(lk, TRUE)
    /\ scen' = -1
    /\ last' = Call(op, NoPatch, lk, "error", FALSE, None, None, 0)
    /\ UNCHANGED <<stored, nextUid, calls>>

add_event_alarm ==
    \/ NotLocated("add", "none")
    \/ \E lk \in Lookups(stored) \ {"none"} : NoOriginal("add", lk)
    \/ \E req \in AddRequests, saveOk \in BOOLEAN :
         /\ Located("loaded", saveOk)
         /\ OriginalEvent(stored, "loaded") # None
         /\ LET orig == OriginalEvent(stored, "loaded")
            IN  IF IsDuplicate(orig[1], req)
                THEN /\ saveOk
                     /\ last' = Call("add", req, "loaded", "skipped", FALSE,
                                     orig, None, 0)
                     /\ scen' = -1
                     /\ UNCHANGED <<stored, nextUid, faults>>
                ELSE LET new == AddBuild(orig[1], req, nextUid)
                     IN  /\ stored' = IF saveOk THEN Calendar(<<new>>)
                                      ELSE stored
                         /\ nextUid' = nextUid + UidNeed(orig[1]) + 1
                         /\ faults' = faults + FaultsOf("loaded", saveOk)
                         /\ last' = Call("add", req, "loaded", "added", saveOk,
                                         orig, Some(new), 0)
                         /\ scen' = ScenNext(1, saveOk /\ req = DefaultAdd(10))

replace_event_alarm ==
    \/ NotLocated("replace", "none")
    \/ \E lk \in Lookups(stored) \ {"none"} : NoOriginal("replace", lk)
    \/ \E req \in ReplaceRequests(stored), saveOk \in BOOLEAN :
         /\ Located("loaded", saveOk)
         /\ OriginalEvent(stored, "loaded") # None
         /\ LET orig == OriginalEvent(stored, "loaded")
                new == ReplaceBuild(orig[1], req, nextUid)
            IN  /\ stored' = IF saveOk THEN Calendar(<<new>>) ELSE stored
                /\ nextUid' = nextUid + UidNeed(orig[1]) + 1
                /\ faults' = faults + FaultsOf("loaded", saveOk)
                /\ last' = Call("replace", req, "loaded", "replaced", saveOk,
                                orig, Some(new), 0)
                /\ scen' = ScenNext(2, saveOk /\ req =
                               DefaultReplace("minutes", Some(10), None, 5))

remove_event_alarm ==
    \/ NotLocated("remove", "none")
    \/ \E lk \in Lookups(stored) \ {"none"} : NoOriginal("remove", lk)
    \/ \E req \in RemoveRequests(stored), saveOk \in BOOLEAN :
         /\ Located("loaded", saveOk)
         /\ OriginalEvent(stored, "loaded") # None
         /\ LET orig == OriginalEvent(stored, "loaded")
                new == RemoveBuild(orig[1], req, nextUid)
            IN  /\ stored' = IF saveOk THEN Calendar(<<new>>) ELSE stored
                /\ nextUid' = nextUid + UidNeed(orig[1])
                /\ faults' = faults + FaultsOf("loaded", saveOk)
                /\ last' = Call("remove", req, "loaded", "removed", saveOk,
                                orig, Some(new), RemovedCount(orig[1], req))
                /\ scen' = ScenNext(3, saveOk /\ req =
                               RemoveRequest("all", None, None))

\* a read: the lookup raises, or decoding the record raises (nothing loaded,
\* or not a calendar), or every VALARM of the record is reported
list_event_alarms ==
    \E lk \in Lookups(stored) :
      /\ Located(lk, TRUE)
      /\ faults' = faults + FaultsOf(lk, TRUE)
      /\ last' = Call("list", NoPatch, lk,
                      IF lk = "loaded" /\ stored.kind = "cal" THEN "listed"
                      ELSE "error", FALSE, None, None, 0)
      /\ UNCHANGED <<stored, nextUid, scen>>

\* a read of the whole calendar: every resource found is decoded and reported
list_my_events ==
    /\ Located("loaded", TRUE)
    /\ last' = Call("events", NoPatch, "loaded", "listed", FALSE, None, None, 0)
    /\ UNCHANGED <<stored, nextUid, faults, scen>>

Next ==
    \/ create_my_event
    \/ update_my_event
    \/ add_event_alarm
    \/ replace_event_alarm
    \/ remove_event_alarm
    \/ list_event_alarms
    \/ list_my_events

Spec == Init /\ [][Next]_vars

\* ---------------------------------------------------- the locator on its own
\* the first step of every handler: _get_event_by_url_or_uid applied to the
\* references of the call; nothing is read or written yet
locate_event ==
    \E event_url \in EventUrls, uid \in EventUids :
      LET lk == get_event_by_url_or_uid(stored, event_url, uid)
      IN  /\ last' = Call("locate", [event_url |-> event_url, uid |-> uid], lk,
                          IF lk = "none" THEN "error" ELSE "located", FALSE,
                          None, None, 0)
          /\ UNCHANGED <<stored, nextUid, ops, faults, scen, calls>>

LocateNext ==
    \/ create_my_event
    \/ locate_event

LocateSpec == Init /\ [][LocateNext]_vars

\* ------------------------------------------------------ overlapping callers
\* Each handler reads the record (get_event_ics_bytes), builds the new record
\* from what it read, and writes it back with event_obj.save(); nothing holds
\* the record between the two, so a call is two steps other calls may
\* separate.  The references of these calls resolve to the loaded resource.
RaceRequests ==
    {[op |-> "add", req |-> DefaultAdd(10)],
     [op |-> "add", req |-> DefaultAdd(-5)],
     [op |-> "remove", req |-> RemoveRequest("all", None, None)]}

\* (variant: the original is decoded again from the record at save time)
FetchedAtSave(call, st) == OriginalEvent(st, "loaded")

\* the original a call builds from: the one it decoded when it read the record
Fetched(call, st) == call.orig

\* what a handler builds and reports from the original it read
Compute(op, req, orig, n) ==
    CASE op = "add" ->
           IF IsDuplicate(orig[1], req)
           THEN [status |-> "skipped", new |-> None, uids |-> 0, removed |-> 0]
           ELSE [status |-> "added", new |-> Some(AddBuild(orig[1], req, n)),
                 uids |-> UidNeed(orig[1]) + 1, removed |-> 0]
      [] op = "remove" ->
           [status |-> "removed", new |-> Some(RemoveBuild(orig[1], req, n)),
            uids |-> UidNeed(orig[1]), removed |-> RemovedCount(orig[1], req)]

\* a call starts: the resource is located and its record read and decoded
fetch_event(c) ==
    \E r \in RaceRequests :
      /\ calls[c].pc # "fetched"
      /\ ops < MaxRaceOps
      /\ OriginalEvent(stored, "loaded") # None
      /\ calls' = [calls EXCEPT ![c] =
                     [pc |-> "fetched", op |-> r.op, req |-> r.req,
                      orig |-> OriginalEvent(stored, "loaded"),
                      status |-> "", saved |-> FALSE, new |-> None]]
      /\ ops' = ops + 1
      /\ UNCHANGED <<stored, nextUid, faults, last, scen>>

\* the call ends: the new record is built and saved over whatever is stored;
\* a failing save is caught and ignored
save_event(c) ==
    \E saveOk \in BOOLEAN :
      LET call == calls[c]
          orig == Fetched(call, stored)
          out  == Compute(call.op, call.req, orig, nextUid)
          wrote == saveOk /\ out.new # None
      IN  /\ call.pc = "fetched"
          /\ out.new = None => saveOk
          /\ faults + FaultsOf("loaded", saveOk) <= MaxFaults
          /\ faults' = faults + FaultsOf("loaded", saveOk)
          /\ stored' = IF wrote THEN Calendar(<<out.new[1]>>) ELSE stored
          /\ nextUid' = nextUid + out.uids
          /\ last' = Call(call.op, call.req, "loaded", out.status, wrote,
                          orig, out.new, out.removed)
          /\ calls' = [calls EXCEPT ![c] =
                         [call EXCEPT !.pc = "done", !.status = out.status,
                                      !.saved = wrote, !.new = out.new]]
          /\ UNCHANGED <<ops, scen>>

RaceNext ==
    \/ create_my_event
    \/ \E c \in Callers : fetch_event(c)
    \/ \E c \in Callers : save_event(c)

RaceSpec == Init /\ [][RaceNext]_vars

\* ----------------------------------------------------------------- claims
\* the event a record holds (its first VEVENT) and its revision counter
HasEvent(st) == st.kind = "cal" /\ st.events # <<>>
Ev(st) == Head(st.events)
SeqOf(e) == IF e.seq = None THEN 0 ELSE e.seq[1]

\* the alarms of e that a listing reports with the given trigger minutes
WithMinutes(e, m) ==
    {i \in 1..Len(e.alarms) : AlarmView(e.alarms[i]).minutes_before = Some(m)}

\* the match predicate of replaceAlarm as the claims word it: trigger-minutes
\* equality, or equality of the given identifier with uid or vendor_uid
Selected(a, req) ==
    \/ /\ req.match_by = "minutes"
       /\ req.minutes_before # None
       /\ AlarmView(a).minutes_before = req.minutes_before
    \/ /\ req.match_by = "uid"
       /\ req.alarm_uid # None
       /\ (a.uid = req.alarm_uid \/ a.xuid = req.alarm_uid)

\* the same with identifiers compared in their text form, where an absent
\* uid reads "None"
SelectedText(a, req) ==
    \/ /\ req.match_by = "minutes"
       /\ req.minutes_before # None
       /\ AlarmView(a).minutes_before = req.minutes_before
    \/ /\ req.match_by = "uid"
       /\ req.alarm_uid # None
       /\ (StrOf(a.uid) = req.alarm_uid[1] \/ StrOf(a.xuid) = req.alarm_uid[1])

\* the handler decoded the event and got as far as its report
Handled(op) == last.op = op /\ last.orig # None

\* C1: the scenario create "Standup" (timed, no alarm), addAlarm(10),
\* replaceAlarm(minutes 10 by 5), removeAlarm(all) leaves, step by step,
\* sequence 1 and no alarm; one alarm of 10 minutes related START and
\* sequence 2; one alarm of 5 minutes and sequence 3; no alarm and sequence 4.
C1_Scenario ==
    /\ scen = 1 => Ev(stored).seq = Some(1) /\ Ev(stored).alarms = <<>>
    /\ scen = 2 => /\ Ev(stored).seq = Some(2)
                   /\ Len(ListAlarms(stored)) = 1
                   /\ ListAlarms(stored)[1].minutes_before = Some(10)
                   /\ ListAlarms(stored)[1].related = Some("START")
    /\ scen = 3 => /\ Ev(stored).seq = Some(3)
                   /\ Len(ListAlarms(stored)) = 1
                   /\ ListAlarms(stored)[1].minutes_before = Some(5)
    /\ scen = 4 => Ev(stored).seq = Some(4) /\ ListAlarms(stored) = <<>>

\* C2: addAlarm with dedupe on an event that has an alarm with the same
\* trigger minutes is skipped: nothing is built, nothing is saved, and the
\* stored record is the one found.
C2_DuplicateSkipped ==
    (/\ Handled("add")
     /\ last.req.dedupe
     /\ WithMinutes(last.orig[1], last.req.minutes_before) # {})
    => /\ last.status = "skipped"
       /\ last.new = None
       /\ ~last.saved
       /\ stored = last.before

C2_Witness ==
    /\ Handled("add")
    /\ last.status = "skipped"
    /\ Len(last.orig[1].alarms) >= 2

\* C3: addAlarm that is not suppressed (no dedupe, or no alarm with the same
\* trigger minutes) builds the original's alarms followed by exactly one new
\* alarm whose uid is fresh and mirrored into vendor_uid, with sequence =
\* original sequence + 1; a save that is accepted stores exactly that event.
C3_AddAppends ==
    (/\ Handled("add")
     /\ \/ ~last.req.dedupe
        \/ WithMinutes(last.orig[1], last.req.minutes_before) = {})
    => /\ last.status = "added"
       /\ LET o == last.orig[1]
              n == last.new[1]
              k == Len(o.alarms)
          IN  /\ Len(n.alarms) = k + 1
              /\ SubSeq(n.alarms, 1, k) = o.alarms
              /\ n.alarms[k + 1].uid # None
              /\ n.alarms[k + 1].xuid = n.alarms[k + 1].uid
              /\ \A i \in 1..k : /\ o.alarms[i].uid # n.alarms[k + 1].uid
                                 /\ o.alarms[i].xuid # n.alarms[k + 1].uid
              /\ n.seq = Some(SeqOf(o) + 1)
              /\ last.saved => stored = Calendar(<<n>>)

C3_Witness ==
    /\ Handled("add")
    /\ last.status = "added"
    /\ last.saved
    /\ ~last.req.dedupe
    /\ WithMinutes(last.orig[1], last.req.minutes_before) # {}

C7_NoMatchNoChange ==
    (Handled("remove") /\ last.removed = 0)
    => /\ last.status = "removed"
       /\ stored = last.before

\* C8: once removeAlarm(all) has reported its outcome, listing the alarms of
\* the record returns the empty sequence.
C8_RemoveAllThenList ==
    (Handled("remove") /\ last.status = "removed" /\ last.req.match_by = "all")
    => ListAlarms(stored) = <<>>

\* C9: a patch, add, replace or remove that reports an outcome never lowers
\* the stored sequence counter, and every patch, every add that is not
\* skipped and every replace raises it by exactly one.
C9_SequenceMonotone ==
    (/\ last.op \in {"patch", "add", "replace", "remove"}
     /\ last.status # "error"
     /\ HasEvent(last.before))
    => /\ HasEvent(stored)
       /\ SeqOf(Ev(stored)) >= SeqOf(Ev(last.before))
       /\ last.status \in {"updated", "added", "replaced"}
          => SeqOf(Ev(stored)) = SeqOf(Ev(last.before)) + 1

\* C10: no patch, add, replace or remove changes the uid of a stored event
\* that has one.
C10_UidImmutable ==
    (/\ last.op \in {"patch", "add", "replace", "remove"}
     /\ HasEvent(last.before)
     /\ Ev(last.before).uid # None)
    => /\ HasEvent(stored)
       /\ Ev(stored).uid = Ev(last.before).uid

\* C11: update_my_event applies per-field overrides: for summary,
\* description, location, rrule, dtstart and dtend the patched event carries
\* the override when one is supplied and exactly the original's value when
\* none is; the original's dtstamp, when it has one, is kept.
C11_PerFieldOverride ==
    (Handled("patch") /\ last.status = "updated")
    => LET o == last.orig[1]
           n == last.new[1]
           r == last.req
       IN  /\ n.summary = IF r.summary # None THEN r.summary ELSE o.summary
           /\ n.description = IF r.description # None THEN r.description
                              ELSE o.description
           /\ n.location = IF r.location # None THEN r.location ELSE o.location
           /\ n.rrule = IF r.rrule # None THEN r.rrule ELSE o.rrule
           /\ n.dtstart = IF r.start # None THEN parse_iso_datetime(r.start).val
                          ELSE o.dtstart
           /\ n.dtend = IF r.end_ # None THEN parse_iso_datetime(r.end_).val
                        ELSE o.dtend
           /\ o.dtstamp # None => n.dtstamp = o.dtstamp

\* C12: a description or location the caller does not override is stored
\* after a patch, add, replace or remove with exactly the text it had before,
\* whatever characters it holds and however often the operation is applied.
C12_TextVerbatim ==
    (/\ last.op \in {"patch", "add", "replace", "remove"}
     /\ last.orig # None
     /\ HasEvent(stored))
    => /\ (last.op = "patch" /\ last.req.description # None)
          \/ Ev(stored).description = Ev(last.before).description
       /\ (last.op = "patch" /\ last.req.location # None)
          \/ Ev(stored).location = Ev(last.before).location

\* C13: update_my_event neither removes nor alters alarms: without
\* alarm_minutes_before, or with a negative one, the patched event has the
\* original's alarm sequence; with alarm_minutes_before >= 0 it has every
\* original alarm, unchanged and in the original order, and exactly one new
\* alarm with that many minutes and a fresh uid.
C13_PatchKeepsAlarms ==
    (Handled("patch") /\ last.status = "updated")
    => LET o == last.orig[1]
           n == last.new[1]
           r == last.req
           k == Len(o.alarms)
       IN  /\ IF r.alarm # None /\ r.alarm[1] >= 0
              THEN /\ Len(n.alarms) = k + 1
                   /\ \E j \in 1..(k + 1) :
                        /\ [i \in 1..k |-> n.alarms[IF i < j THEN i ELSE i + 1]]
                             = o.alarms
                        /\ AlarmView(n.alarms[j]).minutes_before = r.alarm
                        /\ n.alarms[j].uid # None
                        /\ \A i \in 1..k : o.alarms[i].uid # n.alarms[j].uid
              ELSE n.alarms = o.alarms
           /\ last.saved => stored = Calendar(<<n>>)

C13_Witness ==
    /\ Handled("patch")
    /\ last.status = "updated"
    /\ last.saved
    /\ last.req.alarm = Some(5)
    /\ Len(last.orig[1].alarms) >= 2
    /\ Len(Ev(stored).alarms) = Len(last.orig[1].alarms) + 1

\* dtstart and dtend of e, where both are present, are of one kind
SameKind(e) ==
    (e.dtstart # None /\ e.dtend # None) => e.dtstart[1].kind = e.dtend[1].kind

\* the record is one create_my_event stored
Created(st) ==
    \E req \in CreateRequests, n \in 1..nextUid :
      ~CreateRaises(req) /\ st = Calendar(<<CreateBuild(req, n)>>)

\* C14: in the event stored by create_my_event, and in the event stored by an
\* update_my_event of a created event, dtstart and dtend are both calendar
\* dates or both instants.
C14_DatesOfOneKind ==
    /\ (last.op = "create" /\ last.saved) => SameKind(Ev(stored))
    /\ (last.op = "patch" /\ last.status = "updated" /\ Created(last.before))
       => SameKind(Ev(stored))

\* C15: _parse_iso_datetime of a date-only string, as create_my_event and
\* update_my_event apply it to start, yields a calendar date, and for
\* "2024-03-01" a value other than that of "2024-03-01T00:00:00Z".
C15_DateOnlyParsesToDate ==
    LET given == IF last.op = "create" THEN Some(last.req.start)
                 ELSE IF last.op = "patch" THEN last.req.start
                 ELSE None
    IN  (given # None /\ given[1] \in DateOnlyStrings)
        => /\ parse_iso_datetime(given).val # None
           /\ parse_iso_datetime(given).val[1].kind = "date"
           /\ given = Some("2024-03-01")
              => parse_iso_datetime(given).val #
                 parse_iso_datetime(Some("2024-03-01T00:00:00Z")).val

\* the four handlers that rewrite a stored event
Mutating == {"patch", "add", "replace", "remove"}

\* C16: a patch, add, replace or remove whose save of the new event fails
\* does not report "updated", "added", "replaced" or "removed".
C16_SaveFailureSurfaces ==
    (last.op \in Mutating /\ last.new # None /\ ~last.saved)
    => last.status \notin {"updated", "added", "replaced", "removed"}

\* C17: when the stored bytes do not decode into an event, a patch, add,
\* replace or remove reports an error and the stored record stays as it was.
C17_UndecodableUntouched ==
    (last.op \in Mutating /\ last.before.kind = "garbage")
    => /\ last.status = "error"
       /\ stored = last.before

\* every alarm of e has a uid, mirrored in its vendor uid, that no other alarm
\* of e has
UniqueAlarms(e) ==
    /\ \A i \in 1..Len(e.alarms) :
         e.alarms[i].uid # None /\ e.alarms[i].xuid = e.alarms[i].uid
    /\ \A i, j \in 1..Len(e.alarms) :
         i # j => e.alarms[i].uid # e.alarms[j].uid

\* C18: the event create_my_event stores has alarms with unique, mirrored
\* uids, and a patch, add, replace or remove of an event that has them stores
\* an event that has them: the property holds in every event reachable from a
\* created one.
C18_AlarmUidsUnique ==
    /\ (last.op = "create" /\ last.saved) => UniqueAlarms(Ev(stored))
    /\ (/\ last.op \in Mutating
        /\ HasEvent(last.before)
        /\ UniqueAlarms(Ev(last.before))
        /\ HasEvent(stored))
       => UniqueAlarms(Ev(stored))

C18_Witness ==
    /\ last.op \in {"add", "replace"}
    /\ last.saved
    /\ Created(last.before)
    /\ Len(Ev(last.before).alarms) = 1
    /\ Len(Ev(stored).alarms) = 2

\* resolution in the order uid, then address, then fail
ResolvedInOrder(st, event_url, uid) ==
    IF uid # None
    THEN IF event_by_uid(st, uid[1]) THEN "loaded" ELSE "none"
    ELSE IF event_url # None
         THEN IF event_by_uid(st, uid_from_event_url(event_url)[1])
              THEN "loaded" ELSE "none"
         ELSE "none"

\* C19: the event is looked up by the uid when one is supplied, without the
\* address being consulted; by the identifier derived from the address only
\* when no uid is supplied; and the resolution fails when neither is supplied
\* or the lookup finds nothing.
C19_ResolutionOrder ==
    last.op = "locate"
    => last.lookup = ResolvedInOrder(last.before, last.req.event_url,
                                     last.req.uid)

\* the alarm a call built: the one whose uid no alarm of the original has
BuiltAlarms ==
    LET n == last.new[1]
        old == IF last.orig = None THEN {}
               ELSE {last.orig[1].alarms[i].uid :
                       i \in 1..Len(last.orig[1].alarms)}
    IN  {i \in 1..Len(n.alarms) : n.alarms[i].uid \notin old}

\* C20: the alarm built by create_my_event, update_my_event, add_event_alarm
\* or replace_event_alarm has a relative trigger that is a non-positive
\* duration; no call stores a trigger after the anchor.
C20_NoTriggerAfterAnchor ==
    (/\ last.op \in {"create", "patch", "add", "replace"}
     /\ last.new # None
     /\ last.saved)
    => \A i \in BuiltAlarms :
         /\ last.new[1].alarms[i].trigger # None
         /\ last.new[1].alarms[i].trigger[1].kind = "rel"
         /\ last.new[1].alarms[i].trigger[1].secs <= 0

\* ------------------------------------------------------------------- C21
\* both callers have finished a call that read the same original and saved
SameOriginalBothSaved ==
    /\ \A c \in Callers : calls[c].pc = "done" /\ calls[c].saved
    /\ calls[1].orig = calls[2].orig

\* C21: a lost update is reachable.  When two overlapping alarm calls read the
\* same original and both save and report success, the stored record is the
\* one the later saver built from that original alone: the other call's
\* change is gone, and after two add_event_alarm calls the stored event has
\* only one alarm more than the original.
C21_LostUpdate ==
    SameOriginalBothSaved =>
      /\ \E c \in Callers : stored = Calendar(<<calls[c].new[1]>>)
      /\ (\A c \in Callers : calls[c].op = "add" /\ calls[c].status = "added")
           => Len(Ev(stored).alarms) = Len(calls[1].orig[1].alarms) + 1

\* two adds with different minutes read the same original, both report
\* "added", and the stored event holds one of the two alarms only
C21_Witness ==
    /\ SameOriginalBothSaved
    /\ \A c \in Callers : calls[c].op = "add" /\ calls[c].status = "added"
    /\ calls[1].req.minutes_before # calls[2].req.minutes_before
    /\ Len(Ev(stored).alarms) = Len(calls[1].orig[1].alarms) + 1
    /\ \E c \in Callers : stored # Calendar(<<calls[c].new[1]>>)

\* ------------------------------------------------------------------- C22
\* no two alarms of e are listed with the same trigger minutes
DistinctMinutes(e) ==
    \A i, j \in 1..Len(e.alarms) :
      (i # j /\ AlarmView(e.alarms[i]).minutes_before # None)
        => AlarmView(e.alarms[i]).minutes_before
             # AlarmView(e.alarms[j]).minutes_before

\* C22: starting from a created event with at most one alarm, after an
\* add_event_alarm with dedupe, a replace_event_alarm or a
\* remove_event_alarm, no two alarms of the stored event have the same
\* trigger minutes.
C22_TriggerMinutesUnique ==
    (/\ last.saved
     /\ \/ last.op = "add" /\ last.req.dedupe
        \/ last.op \in {"replace", "remove"}
     /\ Created(last.before)
     /\ Len(Ev(last.before).alarms) <= 1)
      => DistinctMinutes(Ev(stored))

\* ------------------------------------------------------------------- C23
\* the alarms of as that remove_event_alarm is asked to keep, in their order
RECURSIVE Unselected(_, _)
Unselected(as, req) ==
    IF as = <<>> THEN <<>>
    ELSE IF req.match_by = "all" \/ Selected(Head(as), req)
         THEN Unselected(Tail(as), req)
         ELSE <<Head(as)>> \o Unselected(Tail(as), req)

\* C23: remove_event_alarm deletes exactly the alarms that satisfy the
\* predicate (all of them, trigger minutes equal to the given minutes, or uid
\* or vendor uid equal to the given identifier): the alarms of the result are
\* the original's alarms that do not satisfy it, in order and unchanged, and
\* the removed count is the original length minus the resulting length.
C23_RemoveExactlySelected ==
    (Handled("remove") /\ last.status = "removed")
    => LET o == last.orig[1]
           n == last.new[1]
       IN  /\ n.alarms = Unselected(o.alarms, last.req)
           /\ last.removed = Len(o.alarms) - Len(n.alarms)
           /\ last.saved => Ev(stored).alarms = n.alarms

\* ------------------------------------------------------------------- C24
\* the call is one that adds an alarm to the event it decoded
AddsAlarm ==
    \/ Handled("add") /\ last.status = "added"
    \/ Handled("replace") /\ last.status = "replaced"
    \/ /\ Handled("patch") /\ last.status = "updated"
       /\ last.req.alarm # None /\ last.req.alarm[1] >= 0

\* C24: after add_event_alarm, replace_event_alarm, or update_my_event with
\* alarm_minutes_before >= 0, the kept alarms of the original come first, in
\* their original order, and the new alarm is the last alarm of the event.
C24_NewAlarmLast ==
    AddsAlarm
    => LET o == last.orig[1]
           n == last.new[1]
           k == Len(n.alarms) - 1
       IN  /\ k >= 0
           /\ \A i \in 1..Len(o.alarms) : n.alarms[k + 1] # o.alarms[i]
           /\ \E f \in [1..k -> 1..Len(o.alarms)] :
                /\ \A i, j \in 1..k : i < j => f[i] < f[j]
                /\ \A i \in 1..k : n.alarms[i] = o.alarms[f[i]]
           /\ last.saved => Ev(stored).alarms = n.alarms

\* ------------------------------------------------------------------- C25
\* C25: list_event_alarms returns one entry per stored alarm, in storage
\* order; an alarm with a relative trigger is reported with the whole minutes
\* of the absolute duration (floor of |seconds| / 60), an alarm without
\* trigger or with a trigger that is not a relative duration with no minutes,
\* a trigger without RELATED parameter with related START; the stored record
\* is the same after the listing.
C25_ListReports ==
    (last.op = "list" /\ last.status = "listed")
    => LET as == AllAlarms(stored.events)
           r  == last.listed
       IN  /\ stored = last.before
           /\ Len(r) = Len(as)
           /\ \A i \in 1..Len(as) :
                /\ r[i].uid = as[i].uid
                /\ r[i].x_wr_alarmuid = as[i].xuid
                /\ r[i].action = as[i].action
                /\ IF as[i].trigger # None /\ as[i].trigger[1].kind = "rel"
                   THEN /\ r[i].minutes_before # None
                        /\ r[i].minutes_before[1] >= 0
                        /\ r[i].minutes_before[1] * 60
                             <= Abs(as[i].trigger[1].secs)
                        /\ Abs(as[i].trigger[1].secs)
                             < (r[i].minutes_before[1] + 1) * 60
                   ELSE r[i].minutes_before = None
                /\ (as[i].trigger # None /\ as[i].trigger[1].related = None)
                     => r[i].related = Some("START")
                /\ (as[i].trigger # None /\ as[i].trigger[1].related # None)
                     => r[i].related = as[i].trigger[1].related

\* a listing of the record with two event components: four entries, the
\* first for the trigger of 630 seconds without RELATED, the last for the
\* alarm without trigger
C25_Witness ==
    /\ last.op = "list"
    /\ last.status = "listed"
    /\ Len(last.listed) = 4
    /\ Ev(stored).alarms[1].trigger = Some(Trigger(-630, None))
    /\ last.listed[1].minutes_before = Some(10)
    /\ last.listed[1].related = Some("START")
    /\ last.listed[3].uid = Some(105)
    /\ AllAlarms(stored.events)[4].trigger = None
    /\ last.listed[4].minutes_before = None

\* ------------------------------------------------------------------- C26
\* C26: decoding a record with several event components takes uid, summary,
\* description, location, start and end from the first event component
\* only: a field the first component lacks is reported absent, never filled
\* in from a later component.
C26_FirstComponentOnly ==
    (last.op = "events" /\ HasEvent(stored))
    => LET e == Ev(stored)
           r == last.listed[1]
           p == parse_event_from_ics(stored)
       IN  /\ Len(last.listed) = 1
           /\ r.uid = e.uid /\ p.uid = e.uid
           /\ r.summary = e.summary /\ p.summary = e.summary
           /\ p.description = e.description
           /\ p.location = e.location
           /\ r.start = dt_to_iso(e.dtstart) /\ p.start = r.start
           /\ r.end_ = dt_to_iso(e.dtend) /\ p.end_ = r.end_

\* ------------------------------------------------------------------- C27
\* C27: under overlapping callers the stored sequence never decreases: no
\* save replaces the stored record with one whose sequence is lower than
\* the sequence stored just before that save.
C27_SequenceNeverLowered ==
    (last.saved /\ HasEvent(last.before))
      => SeqOf(Ev(stored)) >= SeqOf(Ev(last.before))

\* ------------------------------------------------------------------- C28
\* C28: update_my_event never creates a record: when the uid or address
\* given identifies no stored event, the call fails and the store is
\* unchanged; no event with a fresh uid and sequence 1 is written.
C28_PatchNeverCreates ==
    (last.op = "patch" /\ last.before.kind = "absent")
      => /\ last.status = "error"
         /\ stored = last.before
         /\ ~HasEvent(stored)

\* ------------------------------------------------------------------- C29
\* the patched value is the parsed override, or else the original's value
OverrideOrOriginal(given, original, patched) ==
    \/ patched = original
    \/ given # None /\ parse_iso_datetime(given).val # None
         /\ patched = parse_iso_datetime(given).val

\* C29: update_my_event never loses a start or an end: when the original
\* event has dtstart (dtend), the patched event has one whatever start (end)
\* was given, the empty string included, and it is the parsed override or
\* the original's value.
C29_PatchKeepsStartEnd ==
    (Handled("patch") /\ last.status = "updated")
    => LET o == last.orig[1]
           n == last.new[1]
       IN  /\ o.dtstart # None
                => /\ n.dtstart # None
                   /\ OverrideOrOriginal(last.req.start, o.dtstart, n.dtstart)
           /\ o.dtend # None
                => /\ n.dtend # None
                   /\ OverrideOrOriginal(last.req.end_, o.dtend, n.dtend)

\* ------------------------------------------------------------------- C30
\* the alarms of e whose trigger is the one add_event_alarm builds for m
WithTriggerOf(e, m) ==
    {i \in 1..Len(e.alarms) :
       /\ e.alarms[i].trigger # None
       /\ e.alarms[i].trigger[1].kind = "rel"
       /\ e.alarms[i].trigger[1].secs = -(m * 60)}

\* the two callers have each finished one add_event_alarm call, with the same
\* minutes and dedupe, and no other call was made; the event they found had
\* no alarm with that trigger
TwoSameAdds ==
    /\ ops = 2
    /\ \A c \in Callers : /\ calls[c].pc = "done"
                          /\ calls[c].op = "add"
                          /\ calls[c].req.dedupe
    /\ calls[1].req = calls[2].req
    /\ \E c \in Callers :
         WithTriggerOf(calls[c].orig[1], calls[c].req.minutes_before) = {}

\* C30: for every interleaving of the fetch and save steps of two
\* add_event_alarm calls with the same minutes and dedupe on an event without
\* an alarm of that trigger, the event stored in the end has exactly one
\* alarm with that trigger, and every alarm the event had before is still
\* there.
C30_DedupeUnderRaces ==
    TwoSameAdds
    => LET m == calls[1].req.minutes_before
           e == Ev(stored)
       IN  /\ Cardinality(WithTriggerOf(e, m)) = 1
           /\ \A c \in Callers : \A i \in 1..Len(calls[c].orig[1].alarms) :
                \E j \in 1..Len(e.alarms) :
                  e.alarms[j] = calls[c].orig[1].alarms[i]
====
